---- MODULE Spec2Model ----
(***************************************************************************)
(* Model of build.py, the build driver of the spark repository: it lists   *)
(* the directory "shaders", compiles every entry whose name has exactly    *)
(* three dot-separated segments with glslangValidator, then runs the       *)
(* project with odin.                                                      *)
(*                                                                         *)
(* Strings are sequences of one-character strings, so that str.split,      *)
(* str.join, os.path.join and == on strings are computed character by      *)
(* character.  Paths are joined as posixpath joins them (separator "/").   *)
(* Python indexes from 0, TLA+ from 1: sys.argv[1] is argv[2] here.        *)
(***************************************************************************)
EXTENDS Naturals, Sequences, FiniteSets

VARIABLES
    dir,          \* the names in the directory "shaders" (the file system)
    argv,         \* sys.argv of the driver
    run,          \* "first" or "second" execution of the driver on these inputs
    pc,           \* position of the driver: start, loop, end, done, raised
    content,      \* the list returned by os.listdir("shaders")
    idx,          \* number of entries of content the for loop has taken
    invocations,  \* argument lists handed to subprocess.run in this run, in order
    running,      \* child processes that were launched and have not terminated
    waiting,      \* the driver is blocked inside subprocess.run
    status,       \* returncode of the last terminated child of this run ("none" before)
    failed,       \* some compiler child of this run exited non-zero
    launchError,  \* "none", or the tool whose launch raised: "compiler", "runner"
    exit,         \* exit status of the driver process ("none" while it runs)
    first         \* what the first run did, kept for the second run

vars == <<dir, argv, run, pc, content, idx, invocations, running, waiting,
          status, failed, launchError, exit, first>>

----------------------------------------------------------------------------
(* Bounds of the model.                                                    *)

MaxNameLen == 5
MaxEntries == 3
MaxArgs == 2

----------------------------------------------------------------------------
(* String literals of build.py.                                            *)

shaders == <<"s","h","a","d","e","r","s">>
bin == <<"b","i","n">>
spv == <<".","s","p","v">>
glslangValidator == <<"g","l","s","l","a","n","g","V","a","l","i","d","a","t","o","r">>
dashV == <<"-","V">>
dashO == <<"-","o">>
odin == <<"o","d","i","n">>
runWord == <<"r","u","n">>
spark == <<"s","p","a","r","k">>
oSpeed == <<"-","o",":","s","p","e","e","d">>
oNone == <<"-","o",":","n","o","n","e">>
dashDebug == <<"-","d","e","b","u","g">>
release == <<"r","e","l","e","a","s","e">>

----------------------------------------------------------------------------
(* Inputs: directory contents and command lines.                           *)

tri_vert_glsl == <<"t","r","i",".","v","e","r","t",".","g","l","s","l">>
tri_frag_glsl == <<"t","r","i",".","f","r","a","g",".","g","l","s","l">>
readme_txt == <<"r","e","a","d","m","e",".","t","x","t">>
a_b_c_glsl == <<"a",".","b",".","c",".","g","l","s","l">>

\* Sample directory entries; "bin" is the output directory inside shaders.
SampleNames == {tri_vert_glsl, tri_frag_glsl, readme_txt, a_b_c_glsl, bin}

NameChars == {"a", "b", "."}

\* Every file name of at most MaxNameLen characters.  os.listdir never
\* returns "." or "..", and no name is empty or holds a path separator.
ShortNames ==
    (UNION {[1..k -> NameChars] : k \in 1..MaxNameLen}) \ {<<".">>, <<".", ".">>}

\* The directories the driver is run on: up to MaxEntries sample files, or
\* one file of an arbitrary short name.  The directory exists and stays as
\* it is while the driver runs.
Directories ==
    {S \in SUBSET SampleNames : Cardinality(S) <= MaxEntries}
        \cup {{n} : n \in ShortNames}

prog == <<"b","u","i","l","d",".","p","y">>
dbg == <<"d","e","b","u","g">>
ArgWords == {release, dbg}

\* sys.argv: the program name followed by at most MaxArgs arguments.
CommandLines ==
    {<<prog>> \o t : t \in UNION {[1..k -> ArgWords] : k \in 0..MaxArgs}}

ExitCodes == {0, 1, 2}

----------------------------------------------------------------------------
(* Library functions the driver calls.                                     *)

\* os.listdir: the names of the directory, in arbitrary order.
listdir(d) ==
    {f \in [1..Cardinality(d) -> d] : \A i, j \in 1..Cardinality(d) : f[i] = f[j] => i = j}

\* sub in s, for a one-character sub.
contains(s, ch) == \E i \in 1..Len(s) : s[i] = ch

RECURSIVE split(_, _)
\* s.split(sep) for a one-character sep.
split(s, sep) ==
    IF ~contains(s, sep) THEN <<s>>
    ELSE LET i == CHOOSE k \in 1..Len(s) :
                     s[k] = sep /\ \A j \in 1..(k-1) : s[j] # sep
         IN <<SubSeq(s, 1, i-1)>> \o split(SubSeq(s, i+1, Len(s)), sep)

RECURSIVE str_join(_, _)
\* sep.join(items)
str_join(sep, items) ==
    IF Len(items) = 0 THEN <<>>
    ELSE IF Len(items) = 1 THEN items[1]
    ELSE items[1] \o sep \o str_join(sep, Tail(items))

\* posixpath.join(a, b)
path_join2(a, b) ==
    IF Len(b) > 0 /\ b[1] = "/" THEN b
    ELSE IF Len(a) = 0 \/ a[Len(a)] = "/" THEN a \o b
    ELSE a \o <<"/">> \o b

\* posixpath.join(a, b, c)
path_join3(a, b, c) == path_join2(path_join2(a, b), c)

----------------------------------------------------------------------------
(* The driver's own computations.                                          *)

items(entry) == split(entry, ".")

\* eligible with "len(items) < 3" as the second test.
eligible_at_least_three(entry) == contains(entry, ".") /\ Len(items(entry)) >= 3

\* Lines 28-34: the entry is not skipped.
eligible(entry) == contains(entry, ".") /\ Len(items(entry)) = 3

\* shader_name with items[1:3] for items[0:2].
shader_name_shifted(entry) ==
    path_join3(shaders, bin, str_join(<<".">>, SubSeq(items(entry), 2, 3)) \o spv)

\* Line 36.
shader_name(entry) ==
    path_join3(shaders, bin, str_join(<<".">>, SubSeq(items(entry), 1, 2)) \o spv)

\* Line 38.
compile_cmd(entry) ==
    <<glslangValidator, dashV, path_join2(shaders, entry), dashO, shader_name(entry)>>

\* runner_cmd with "release" in sys.argv as the test.
runner_cmd_any_arg(av) ==
    IF \E i \in 1..Len(av) : av[i] = release
    THEN <<odin, runWord, spark>> \o <<oSpeed>>
    ELSE <<odin, runWord, spark>> \o <<oNone, dashDebug>>

\* Lines 41-46.
runner_cmd(av) ==
    IF Len(av) > 1 /\ av[2] = release
    THEN <<odin, runWord, spark>> \o <<oSpeed>>
    ELSE <<odin, runWord, spark>> \o <<oNone, dashDebug>>

\* loop_entry for a loop over reversed(content).
loop_entry_reversed(c, i) == c[Len(c) + 1 - i]

\* The entry the for loop takes as its i-th.
loop_entry(c, i) == c[i]

\* skip_to for "break" in place of "continue".
skip_break(i, n) == n

\* "continue": the loop goes on with the entry after the i-th of n.
skip_to(i, n) == i

\* script_exit for sys.exit(process.returncode).
script_exit_returncode(rc) == rc

\* The interpreter's exit status when the script runs off its end; the
\* CompletedProcess of the last run_cmd is dropped.
script_exit(rc) == 0

\* run_cmd for subprocess.Popen(cmd): the driver does not wait for the child.
run_cmd_no_wait(cmd, ret) ==
    /\ invocations' = Append(invocations, cmd)
    /\ \/ /\ running' = running \cup {Len(invocations) + 1}
          /\ waiting' = FALSE
          /\ pc' = ret
          /\ UNCHANGED <<launchError, exit>>
       \/ /\ pc' = "raised"
          /\ launchError' = (IF cmd[1] = glslangValidator THEN "compiler" ELSE "runner")
          /\ exit' = 1
          /\ UNCHANGED <<running, waiting>>

\* run_cmd with the call wrapped in try/except: a failed launch is swallowed.
run_cmd_swallow(cmd, ret) ==
    /\ invocations' = Append(invocations, cmd)
    /\ \/ /\ running' = running \cup {Len(invocations) + 1}
          /\ waiting' = TRUE
          /\ pc' = ret
          /\ UNCHANGED <<launchError, exit>>
       \/ /\ pc' = ret
          /\ launchError' = (IF cmd[1] = glslangValidator THEN "compiler" ELSE "runner")
          /\ UNCHANGED <<running, waiting, exit>>

\* subprocess.run(cmd): the call.  Either the child is launched and the
\* driver blocks until it terminates, then goes on at ret; or the
\* executable is not found and FileNotFoundError is raised, which nothing
\* catches: traceback, exit status 1.
run_cmd(cmd, ret) ==
    /\ invocations' = Append(invocations, cmd)
    /\ \/ /\ running' = running \cup {Len(invocations) + 1}
          /\ waiting' = TRUE
          /\ pc' = ret
          /\ UNCHANGED <<launchError, exit>>
       \/ /\ pc' = "raised"
          /\ launchError' = (IF cmd[1] = glslangValidator THEN "compiler" ELSE "runner")
          /\ exit' = 1
          /\ UNCHANGED <<running, waiting>>

\* run_returns for subprocess.run(cmd, check=True): CalledProcessError on a
\* non-zero returncode.
run_checked(rc) ==
    /\ waiting' = FALSE
    /\ IF rc = 0 THEN UNCHANGED <<pc, exit>> ELSE pc' = "raised" /\ exit' = 1

\* subprocess.run(cmd): the child terminated with returncode rc.  check is
\* not set, so the call returns whatever rc is.
run_returns(rc) ==
    /\ waiting' = FALSE
    /\ UNCHANGED <<pc, exit>>

----------------------------------------------------------------------------
(* The state machine.                                                      *)

NoRun == [ok |-> FALSE, compilers |-> <<>>, runner |-> <<>>]

Init ==
    /\ dir \in Directories
    /\ argv \in CommandLines
    /\ run = "first"
    /\ pc = "start"
    /\ content = <<>>
    /\ idx = 0
    /\ invocations = <<>>
    /\ running = {}
    /\ waiting = FALSE
    /\ status = "none"
    /\ failed = FALSE
    /\ launchError = "none"
    /\ exit = "none"
    /\ first = NoRun

\* Line 7.
ListDir ==
    /\ pc = "start"
    /\ content' \in listdir(dir)
    /\ pc' = "loop"
    /\ UNCHANGED <<dir, argv, run, idx, invocations, running, waiting, status,
                   failed, launchError, exit, first>>

\* Lines 27-34: an iteration that skips its entry.
Skip ==
    /\ pc = "loop" /\ ~waiting
    /\ idx < Len(content)
    /\ ~eligible(loop_entry(content, idx + 1))
    /\ idx' = skip_to(idx + 1, Len(content))
    /\ UNCHANGED <<dir, argv, run, pc, content, invocations, running, waiting,
                   status, failed, launchError, exit, first>>

\* Lines 27-39: an iteration that compiles its entry.
Compile ==
    /\ pc = "loop" /\ ~waiting
    /\ idx < Len(content)
    /\ eligible(loop_entry(content, idx + 1))
    /\ idx' = idx + 1
    /\ run_cmd(compile_cmd(loop_entry(content, idx + 1)), "loop")
    /\ UNCHANGED <<dir, argv, run, content, status, failed, first>>

\* RunProject with lines 41-47 placed above the for loop.
RunProject_before_loop ==
    /\ pc = "loop" /\ ~waiting
    /\ idx = 0 /\ invocations = <<>>
    /\ run_cmd(runner_cmd(argv), "loop")
    /\ UNCHANGED <<dir, argv, run, content, idx, status, failed, first>>

\* Lines 41-47: the loop is over.
RunProject ==
    /\ pc = "loop" /\ ~waiting
    /\ idx >= Len(content)
    /\ run_cmd(runner_cmd(argv), "end")
    /\ UNCHANGED <<dir, argv, run, content, idx, status, failed, first>>

\* A child process terminates and subprocess.run returns.
ChildExit ==
    \E c \in running, rc \in ExitCodes :
        /\ running' = running \ {c}
        /\ status' = rc
        /\ failed' = (failed \/ (rc # 0 /\ invocations[c][1] = glslangValidator))
        /\ run_returns(rc)
        /\ UNCHANGED <<dir, argv, run, content, idx, invocations, launchError, first>>

\* The script runs off its end.
Exit ==
    /\ pc = "end" /\ ~waiting
    /\ pc' = "done"
    /\ exit' = script_exit(status)
    /\ UNCHANGED <<dir, argv, run, content, idx, invocations, running, waiting,
                   status, failed, launchError, first>>

IsCompiler(cmd) == cmd[1] = glslangValidator
IsRunner(cmd) == cmd[1] = odin

\* The driver is started again on the same directory and command line.
Restart ==
    /\ pc \in {"done", "raised"}
    /\ run = "first"
    /\ run' = "second"
    /\ first' = [ok |-> (pc = "done"),
                 compilers |-> SelectSeq(invocations, IsCompiler),
                 runner |-> SelectSeq(invocations, IsRunner)]
    /\ pc' = "start"
    /\ content' = <<>>
    /\ idx' = 0
    /\ invocations' = <<>>
    /\ waiting' = FALSE
    /\ status' = "none"
    /\ failed' = FALSE
    /\ launchError' = "none"
    /\ exit' = "none"
    /\ UNCHANGED <<dir, argv, running>>

Next ==
    \/ ListDir
    \/ Skip
    \/ Compile
    \/ RunProject
    \/ ChildExit
    \/ Exit
    \/ Restart

Spec == Init /\ [][Next]_vars

----------------------------------------------------------------------------
(* Vocabulary of the properties, stated on the characters of the names     *)
(* and not through split, str_join or path_join.                           *)

Range(q) == {q[i] : i \in 1..Len(q)}

DotCount(name) == Cardinality({i \in 1..Len(name) : name[i] = "."})

LastDot(name) == CHOOSE i \in 1..Len(name) :
                     name[i] = "." /\ \A j \in (i+1)..Len(name) : name[j] # "."

\* shaders/<name>
InputPath(name) == shaders \o <<"/">> \o name

\* shaders/bin/<name up to and with its last dot>spv
OutputPath(name) ==
    shaders \o <<"/">> \o bin \o <<"/">> \o SubSeq(name, 1, LastDot(name)) \o <<"s","p","v">>

CompileArgs(name) == <<glslangValidator, dashV, InputPath(name), dashO, OutputPath(name)>>

ReleaseArgs == <<odin, runWord, spark, oSpeed>>
DebugArgs == <<odin, runWord, spark, oNone, dashDebug>>

TwoDots(name) == DotCount(name) = 2

CompilerInvocations == SelectSeq(invocations, IsCompiler)
RunnerInvocations == SelectSeq(invocations, IsRunner)

\* The compiler was invoked on the entry.
InvokedOn(name) ==
    \E k \in 1..Len(invocations) :
        IsCompiler(invocations[k]) /\ invocations[k][3] = InputPath(name)

Terminated == pc \in {"done", "raised"}

\* The run is over, every invocation launched a child and every child terminated.
AllChildrenRan == Terminated /\ launchError = "none"

IsPrefix(p, q) == Len(p) <= Len(q) /\ SubSeq(q, 1, Len(p)) = p

----------------------------------------------------------------------------
(* The claims.                                                             *)

\* C1: an entry of the listing gets a compiler invocation if and only if its
\* name has exactly two dots (three segments).  No invocation is ever issued
\* for an entry with another number of dots, and when the run is over with
\* every child launched and terminated, each entry with two dots has one.
C1_InvokedIffThreeSegments ==
    /\ \A k \in 1..Len(invocations) :
          IsCompiler(invocations[k]) =>
              \E i \in 1..Len(content) :
                  TwoDots(content[i]) /\ invocations[k][3] = InputPath(content[i])
    /\ AllChildrenRan =>
          \A i \in 1..Len(content) : InvokedOn(content[i]) <=> TwoDots(content[i])

\* A finished run over a listing with a one-dot, a two-dot and a three-dot entry.
C1_Witness ==
    /\ pc = "done"
    /\ \E i, j, k \in 1..Len(content) :
          /\ DotCount(content[i]) = 1
          /\ DotCount(content[j]) = 2 /\ InvokedOn(content[j])
          /\ DotCount(content[k]) = 3

\* C2: every compiler invocation is exactly
\* [glslangValidator, -V, shaders/a.b.c, -o, shaders/bin/a.b.spv] for an
\* entry a.b.c of the listing, empty segments included, and a finished run
\* has issued that argument list for every such entry.
C2_CompilerArguments ==
    /\ \A k \in 1..Len(invocations) :
          IsCompiler(invocations[k]) =>
              \E i \in 1..Len(content) :
                  TwoDots(content[i]) /\ invocations[k] = CompileArgs(content[i])
    /\ AllChildrenRan =>
          \A i \in 1..Len(content) :
              TwoDots(content[i]) =>
                  \E k \in 1..Len(invocations) : invocations[k] = CompileArgs(content[i])

\* The entry ".a." (empty first and third segment) compiled to shaders/bin/.a.spv.
C2_Witness ==
    /\ pc = "done"
    /\ content = << <<".", "a", ".">> >>
    /\ invocations[1][3] = <<"s","h","a","d","e","r","s","/",".","a",".">>
    /\ invocations[1][5] =
          <<"s","h","a","d","e","r","s","/","b","i","n","/",".","a",".","s","p","v">>

\* C3: the runner's argument list is [odin, run, spark, -o:speed] if and only
\* if a first argument exists and is "release", and is
\* [odin, run, spark, -o:none, -debug] otherwise; later arguments do not count.
C3_RunnerArguments ==
    \A k \in 1..Len(invocations) :
        IsRunner(invocations[k]) =>
            /\ invocations[k] = ReleaseArgs <=> (Len(argv) >= 2 /\ argv[2] = release)
            /\ invocations[k] = DebugArgs <=> ~(Len(argv) >= 2 /\ argv[2] = release)

\* The runner invoked with the debug flags although a later argument is "release".
C3_Witness ==
    /\ Len(argv) >= 3 /\ argv[2] # release /\ argv[3] = release
    /\ Len(invocations) >= 1
    /\ invocations[Len(invocations)] = DebugArgs

\* C4: whatever the children's exit statuses, a run in which every child was
\* launched and has terminated ended normally, after the invocations that
\* the listing and the command line fix: one compiler invocation per
\* two-dot entry, in listing order, then the runner.
C4_ExitStatusIgnored ==
    AllChildrenRan =>
        /\ pc = "done"
        /\ CompilerInvocations = [i \in 1..Len(SelectSeq(content, TwoDots)) |->
                                      CompileArgs(SelectSeq(content, TwoDots)[i])]
        /\ invocations = CompilerInvocations
                            \o <<IF Len(argv) >= 2 /\ argv[2] = release
                                 THEN ReleaseArgs ELSE DebugArgs>>

\* A finished run with two compiler invocations, one of which exited non-zero.
C4_Witness ==
    /\ pc = "done"
    /\ failed
    /\ Len(CompilerInvocations) >= 2

\* C5 as claimed: after a failed launch of the compiler the driver still
\* compiles every remaining two-dot entry and still invokes the runner.
C5_LaunchFailureSwallowed ==
    (Terminated /\ launchError = "compiler") =>
        /\ \A i \in 1..Len(content) : TwoDots(content[i]) => InvokedOn(content[i])
        /\ Len(RunnerInvocations) = 1

\* C5 as amended: a failed launch of the compiler ends the driver at that
\* invocation with exit status 1: the failing compiler invocation stays the
\* last one, no entry after it is taken and the runner is never invoked.
C5_LaunchFailureAborts ==
    launchError = "compiler" =>
        /\ pc = "raised"
        /\ exit = 1
        /\ ~waiting /\ running = {}
        /\ Len(invocations) >= 1
        /\ invocations[Len(invocations)] = CompileArgs(content[idx])
        /\ Len(RunnerInvocations) = 0

\* The compiler could not be launched while a two-dot entry was still to come.
C5_Witness ==
    /\ launchError = "compiler"
    /\ \E j \in (idx+1)..Len(content) : TwoDots(content[j])

\* C6: the runner is never followed by another invocation and is invoked at
\* most once; a run in which every child was launched and has terminated
\* invoked it exactly once, as the last invocation; on an empty directory
\* with no argument that run issued the debug runner invocation and nothing else.
C6_RunnerOnceAndLast ==
    /\ \A k \in 1..Len(invocations) : IsRunner(invocations[k]) => k = Len(invocations)
    /\ AllChildrenRan =>
          /\ Len(RunnerInvocations) = 1
          /\ IsRunner(invocations[Len(invocations)])
    /\ (AllChildrenRan /\ dir = {} /\ Len(argv) = 1) => invocations = <<DebugArgs>>

\* A finished run whose runner invocation came after two compiler invocations.
C6_Witness ==
    /\ pc = "done"
    /\ Len(invocations) = 3
    /\ IsCompiler(invocations[1]) /\ IsCompiler(invocations[2])
    /\ IsRunner(invocations[3])

\* C7: nothing is invoked before the directory is listed, and the compiler
\* invocations follow the listing: at every moment they are the argument
\* lists of the first two-dot entries of the listing, in listing order; a run
\* in which every child was launched and has terminated has one per two-dot
\* entry, each entry once.
C7_InvocationsFollowListing ==
    LET want == [i \in 1..Len(SelectSeq(content, TwoDots)) |->
                     CompileArgs(SelectSeq(content, TwoDots)[i])]
    IN /\ pc = "start" => invocations = <<>>
       /\ IsPrefix(CompilerInvocations, want)
       /\ AllChildrenRan =>
             /\ Len(CompilerInvocations) = Cardinality({n \in dir : TwoDots(n)})
             /\ CompilerInvocations = want
             /\ \A n \in dir :
                   TwoDots(n) =>
                       Cardinality({k \in 1..Len(invocations) :
                                       invocations[k] = CompileArgs(n)}) = 1

\* The listing tri.frag.glsl, readme.txt, tri.vert.glsl gave exactly two
\* compiler invocations, for tri.frag.spv and then tri.vert.spv.
C7_Witness ==
    /\ pc = "done"
    /\ content = <<tri_frag_glsl, readme_txt, tri_vert_glsl>>
    /\ Len(CompilerInvocations) = 2
    /\ CompilerInvocations[1][5] =
          <<"s","h","a","d","e","r","s","/","b","i","n","/",
            "t","r","i",".","f","r","a","g",".","s","p","v">>
    /\ CompilerInvocations[2][5] =
          <<"s","h","a","d","e","r","s","/","b","i","n","/",
            "t","r","i",".","v","e","r","t",".","s","p","v">>

\* C8: at most one child process runs at any time, and an invocation is
\* issued only when no child is running.
C8_NoOverlap ==
    /\ [](Cardinality(running) <= 1)
    /\ [][Len(invocations') > Len(invocations) => running = {}]_vars

\* A child is running that is not the first invocation of the run.
C8_Witness ==
    /\ running # {}
    /\ Len(invocations) >= 2

\* C9 as claimed: on normal termination the driver's exit status is the
\* exit status of the runner.
C9_ExitStatusIsRunners ==
    pc = "done" => exit = status

\* C9 as amended: on normal termination the driver's exit status is 0,
\* whatever the runner returned.
C9_ExitStatusZero ==
    pc = "done" => exit = 0

\* The driver ended normally after the runner exited non-zero.
C9_Witness ==
    /\ pc = "done"
    /\ status # 0

\* C10: a second run on the same directory and command line, both runs with
\* every child launched and terminated, issues the same set of compiler
\* argument lists and the same runner argument list as the first, whatever
\* the order of the two listings and the exit statuses of the children.
C10_SameInvocations ==
    (run = "second" /\ AllChildrenRan /\ first.ok) =>
        /\ Range(CompilerInvocations) = Range(first.compilers)
        /\ RunnerInvocations = first.runner

\* The second run compiled in another order than the first, and one of its
\* compiler children exited non-zero.
C10_Witness ==
    /\ run = "second" /\ pc = "done" /\ first.ok
    /\ failed
    /\ CompilerInvocations # first.compilers

====
